---------------------------- MODULE Spec2Model ----------------------------
(***************************************************************************)
(* Model of fulaura/OES_bypass: the chunk-mode clustering of ocr()         *)
(* (src/ocr.py) and the target-point selector pick_point_in_bbox() /       *)
(* click_bbox() (src/mouseclick.py), and the pointer actuation of          *)
(* click_bbox() through uinput (src/mousemovement.py) or ydotool.          *)
(*                                                                         *)
(* A word's text is represented by the index of the word in the OCR data,  *)
(* so a chunk's text (the space-joined word texts) is the sequence of the  *)
(* indices of the words joined, in the order they were joined.             *)
(***************************************************************************)
EXTENDS Integers, Sequences, FiniteSets, TLC

VARIABLES
    data,            \* ocr: the OCR collaborator's word records (input)
    ocr_args,        \* ocr: mode, x_thresh, y_thresh, group_y_thresh of the call
    ocr_ret,         \* ocr: [status, results] of the call ("idle" before it)
    pk_args,         \* click_bbox: bbox, rule, margin, seed of the latest call
    pk_ret,          \* click_bbox: outcome of the latest call ("idle" before it)
    pk_rng,          \* the generator object the latest call left behind
    pk_probe,        \* an earlier click_bbox call kept for comparison
    ck,              \* click_bbox with actuation: arguments, position, trace
    cursor,          \* the ground-truth pointer position
    channel,         \* how the receiving system applies relative motion
    ocr_perm,        \* ocr: a second call, on the same words delivered in another order
    bf               \* bbox_for_contains: results, needle, strict and outcome of a call

ocr_vars == <<data, ocr_args, ocr_ret>>
pk_vars == <<pk_args, pk_ret, pk_rng, pk_probe>>
ck_vars == <<ck, cursor, channel>>
aux_vars == <<ocr_perm, bf>>
vars == <<data, ocr_args, ocr_ret, pk_args, pk_ret, pk_rng, pk_probe, ck, cursor, channel,
          ocr_perm, bf>>

(***************************************************************************)
(* Bounds of the clustering inputs.                                        *)
(***************************************************************************)
MaxWords == 3
MaxX == 2
MaxY == 0
MaxThresh == 0

Min(a, b) == IF a <= b THEN a ELSE b
Max(a, b) == IF a >= b THEN a ELSE b
Max3(a, b, c) == Max(a, Max(b, c))

(***************************************************************************)
(* Inputs of ocr().  A grid of unit word boxes, any of which may carry     *)
(* blank text, and the scenarios of the specification's section 8 together *)
(* with boxes of different sizes that overlap, touch and nest.             *)
(***************************************************************************)
Word(b, x, y, w, h) == [blank |-> b, x |-> x, y |-> y, w |-> w, h |-> h]

BlankWord == Word(TRUE, 0, 0, 0, 0)

GridWords == {Word(FALSE, x, y, 1, 1) : x \in 0..MaxX, y \in 0..MaxY} \cup {BlankWord}

GridData == UNION {[1..n -> GridWords] : n \in 0..MaxWords}

Paris == Word(FALSE, 10, 10, 30, 10)
France == Word(FALSE, 45, 10, 35, 10)

ScenarioData ==
    { <<Paris, France>>,
      <<France, Paris>>,
      <<Word(FALSE, 10, 60, 30, 10), Paris, France>>,
      <<Word(FALSE, 10, 10, 40, 20), Word(FALSE, 20, 15, 5, 5), Word(FALSE, 60, 12, 10, 30)>>,
      <<Word(FALSE, 50, 30, 10, 10), BlankWord, Word(FALSE, 10, 10, 10, 10), Word(FALSE, 30, 10, 10, 10)>>,
      <<Word(FALSE, 0, 0, 10, 10), Word(FALSE, 0, 28, 10, 10), Word(FALSE, 0, 14, 10, 10)>>,
      <<Word(FALSE, 0, 50, 10, 10), Word(FALSE, 40, 0, 10, 10), Word(FALSE, 12, 50, 10, 10)>> }

GridThresh == (-1)..MaxThresh
GridGroupThresh == 0..MaxThresh
ScenarioXThresh == {2, 20}
ScenarioYThresh == {4, 8}
ScenarioGroupThresh == {35}

XThreshInputs == IF data \in ScenarioData THEN ScenarioXThresh ELSE GridThresh
YThreshInputs == IF data \in ScenarioData THEN ScenarioYThresh ELSE GridThresh
GroupThreshInputs == IF data \in ScenarioData THEN ScenarioGroupThresh ELSE GridGroupThresh

DefaultXThresh == 20
DefaultYThresh == 8
DefaultGroupYThresh == 35

OcrArgs(mode, xt, yt, gyt) ==
    [mode |-> mode, x_thresh |-> xt, y_thresh |-> yt, group_y_thresh |-> gyt]

(***************************************************************************)
(* ocr(), chunk mode.                                                      *)
(***************************************************************************)

\* ocr.py:60  `if text.strip():` keeps the words whose text is not blank
KeepWordAll(wd) == TRUE
KeepWord(wd) == ~wd.blank

\* ocr.py:58-68  the boxes list: the kept words, in the order delivered
RECURSIVE BoxesFrom(_, _)
BoxesFrom(d, i) ==
    IF i > Len(d) THEN <<>>
    ELSE IF KeepWord(d[i])
         THEN <<[text |-> i, x |-> d[i].x, y |-> d[i].y, w |-> d[i].w, h |-> d[i].h]>>
              \o BoxesFrom(d, i + 1)
         ELSE BoxesFrom(d, i + 1)

Boxes(d) == BoxesFrom(d, 1)

\* ocr.py:71-78
box_distance_one_sided(box1, box2) ==
    [x_gap |-> Max(box2.x - (box1.x + box1.w), 0),
     y_gap |-> Max(box2.y - (box1.y + box1.h), 0)]
box_distance(box1, box2) ==
    [x_gap |-> Max3(box2.x - (box1.x + box1.w), box1.x - (box2.x + box2.w), 0),
     y_gap |-> Max3(box2.y - (box1.y + box1.h), box1.y - (box2.y + box2.h), 0)]

\* ocr.py:80-82
is_close_either(box1, box2, xt, yt) ==
    LET g == box_distance(box1, box2) IN g.x_gap <= xt \/ g.y_gap <= yt
is_close_strict(box1, box2, xt, yt) ==
    LET g == box_distance(box1, box2) IN g.x_gap < xt /\ g.y_gap < yt
is_close(box1, box2, xt, yt) ==
    LET g == box_distance(box1, box2) IN g.x_gap <= xt /\ g.y_gap <= yt

\* ocr.py:104  queue.append(other)
EnqueueDropped(queue, j) == queue
Enqueue(queue, j) == Append(queue, j)

\* ocr.py:102  chunk_text += " " + other["text"]
JoinTextFront(text, t) == <<t>> \o text
JoinText(text, t) == Append(text, t)

\* ocr.py:96-104  one scan `for other in boxes` for the box just dequeued;
\* st = [used, queue, text, x1, y1, x2, y2]
RECURSIVE ScanOthers(_, _, _, _, _, _)
ScanOthers(boxes, cur, j, st, xt, yt) ==
    IF j > Len(boxes) THEN st
    ELSE IF j \notin st.used /\ is_close(boxes[cur], boxes[j], xt, yt)
         THEN ScanOthers(boxes, cur, j + 1,
                  [used  |-> st.used \cup {j},
                   queue |-> Enqueue(st.queue, j),
                   text  |-> JoinText(st.text, boxes[j].text),
                   x1    |-> Min(st.x1, boxes[j].x),
                   y1    |-> Min(st.y1, boxes[j].y),
                   x2    |-> Max(st.x2, boxes[j].x + boxes[j].w),
                   y2    |-> Max(st.y2, boxes[j].y + boxes[j].h)],
                  xt, yt)
         ELSE ScanOthers(boxes, cur, j + 1, st, xt, yt)

\* ocr.py:93-104  `while queue:` breadth-first expansion of one chunk
RECURSIVE ExpandChunk(_, _, _, _)
ExpandChunk(boxes, st, xt, yt) ==
    IF st.queue = <<>> THEN st
    ELSE ExpandChunk(boxes,
             ScanOthers(boxes, Head(st.queue), 1,
                        [st EXCEPT !.queue = Tail(st.queue)], xt, yt),
             xt, yt)

\* ocr.py:106  "bbox": (x1, y1, x2 - x1, y2 - y1)
ChunkBBoxCorners(st) == <<st.x1, st.y1, st.x2, st.y2>>
ChunkBBox(st) == <<st.x1, st.y1, st.x2 - st.x1, st.y2 - st.y1>>

\* ocr.py:86-87  `if box["used"]: continue`
SeedSkippedNever(used, i) == FALSE
SeedSkipped(used, i) == i \in used

\* ocr.py:85-106  `for i, box in enumerate(boxes)`: one chunk per unused box
RECURSIVE MergeFrom(_, _, _, _, _, _)
MergeFrom(boxes, i, used, results, xt, yt) ==
    IF i > Len(boxes) THEN results
    ELSE IF SeedSkipped(used, i) THEN MergeFrom(boxes, i + 1, used, results, xt, yt)
    ELSE LET box == boxes[i]
             st  == ExpandChunk(boxes,
                        [used  |-> used \cup {i},
                         queue |-> <<i>>,
                         text  |-> <<box.text>>,
                         x1    |-> box.x,
                         y1    |-> box.y,
                         x2    |-> box.x + box.w,
                         y2    |-> box.y + box.h],
                        xt, yt)
         IN MergeFrom(boxes, i + 1, st.used,
                Append(results,
                       [text |-> st.text,
                        bbox |-> ChunkBBox(st),
                        group_id |-> 0]),
                xt, yt)

MergeBoxes(boxes, xt, yt) == MergeFrom(boxes, 1, {}, <<>>, xt, yt)

\* ocr.py:112  results.sort(key=lambda r: r["bbox"][1]): a stable sort by
\* the top edge, computed by insertion behind the entries with a key <= r's
RECURSIVE InsertByTop(_, _)
InsertByTop(sorted, r) ==
    IF sorted = <<>> THEN <<r>>
    ELSE IF Head(sorted).bbox[2] <= r.bbox[2]
         THEN <<Head(sorted)>> \o InsertByTop(Tail(sorted), r)
         ELSE <<r>> \o sorted

RECURSIVE SortFrom(_, _, _)
SortFrom(results, i, sorted) ==
    IF i > Len(results) THEN sorted
    ELSE SortFrom(results, i + 1, InsertByTop(sorted, results[i]))

SortByTopOmitted(results) == results
SortByTop(results) == SortFrom(results, 1, <<>>)

\* ocr.py:117  `if last_y is None or (y - last_y) > group_y_thresh:`
StartsNewGroupAtThresh(has_last, y, last_y, gyt) == ~has_last \/ (y - last_y) >= gyt
StartsNewGroup(has_last, y, last_y, gyt) == ~has_last \/ (y - last_y) > gyt

\* ocr.py:113-120  the walk that tags each result with its group id;
\* last_y = None is carried as has_last = FALSE
RECURSIVE AssignFrom(_, _, _, _, _, _)
AssignFrom(results, i, group_id, has_last, last_y, gyt) ==
    IF i > Len(results) THEN results
    ELSE LET y   == results[i].bbox[2]
             gid == IF StartsNewGroup(has_last, y, last_y, gyt) THEN group_id + 1 ELSE group_id
         IN AssignFrom([results EXCEPT ![i].group_id = gid], i + 1, gid, TRUE, y, gyt)

AssignGroups(results, gyt) == AssignFrom(results, 1, 1, FALSE, 0, gyt)

\* ocr.py:7-139  ocr(): chunk mode, or ValueError for an unknown mode
ocr(d, a) ==
    IF a.mode = "chunk"
    THEN [status |-> "ok",
          results |-> AssignGroups(SortByTop(MergeBoxes(Boxes(d), a.x_thresh, a.y_thresh)),
                                   a.group_y_thresh)]
    ELSE [status |-> "error", results |-> <<>>]

(***************************************************************************)
(* Target-point selection (src/mouseclick.py).  A rule string is the       *)
(* sequence of its characters; an absent rule or seed (None) is a record   *)
(* with given = FALSE.                                                     *)
(***************************************************************************)
MaxSide == 3
MaxMargin == 2
MaxSeed == 1

Rect(x, y, w, h) == [x |-> x, y |-> y, w |-> w, h |-> h]

NoRule == [given |-> FALSE, chars |-> <<>>]
RuleStr(cs) == [given |-> TRUE, chars |-> cs]

NoSeed == [given |-> FALSE, value |-> 0]
SeedOf(v) == [given |-> TRUE, value |-> v]

S_random == <<"r", "a", "n", "d", "o", "m">>
S_rand == <<"r", "a", "n", "d">>
S_left_middle == <<"l", "e", "f", "t", "-", "m", "i", "d", "d", "l", "e">>
S_leftmid == <<"l", "e", "f", "t", "m", "i", "d">>
S_left_mid == <<"l", "e", "f", "t", "-", "m", "i", "d">>
S_left_middle_side ==
    <<"l", "e", "f", "t", "-", "m", "i", "d", "d", "l", "e", "-", "s", "i", "d", "e">>

ExampleRect == Rect(100, 100, 50, 40)

\* str.lower() on the letters A-Z
LowerMap ==
    ("A" :> "a") @@ ("B" :> "b") @@ ("C" :> "c") @@ ("D" :> "d") @@ ("E" :> "e") @@
    ("F" :> "f") @@ ("G" :> "g") @@ ("H" :> "h") @@ ("I" :> "i") @@ ("J" :> "j") @@
    ("K" :> "k") @@ ("L" :> "l") @@ ("M" :> "m") @@ ("N" :> "n") @@ ("O" :> "o") @@
    ("P" :> "p") @@ ("Q" :> "q") @@ ("R" :> "r") @@ ("S" :> "s") @@ ("T" :> "t") @@
    ("U" :> "u") @@ ("V" :> "v") @@ ("W" :> "w") @@ ("X" :> "x") @@ ("Y" :> "y") @@
    ("Z" :> "z")

Whitespace == {" ", "\t", "\n"}

RECURSIVE LStrip(_)
LStrip(cs) ==
    IF cs # <<>> /\ Head(cs) \in Whitespace THEN LStrip(Tail(cs)) ELSE cs

RECURSIVE RStrip(_)
RStrip(cs) ==
    IF cs # <<>> /\ cs[Len(cs)] \in Whitespace
    THEN RStrip(SubSeq(cs, 1, Len(cs) - 1))
    ELSE cs

Strip(cs) == RStrip(LStrip(cs))

Lower(cs) == [k \in 1..Len(cs) |-> IF cs[k] \in DOMAIN LowerMap THEN LowerMap[cs[k]] ELSE cs[k]]

ReplaceChar(cs, from, to) == [k \in 1..Len(cs) |-> IF cs[k] = from THEN to ELSE cs[k]]

\* mouseclick.py:105  rule = (rule or "").strip().lower().replace("_", "-")
NormalizeRuleDefaultRandom(rule) ==
    ReplaceChar(Lower(Strip(IF rule.given /\ rule.chars # <<>> THEN rule.chars ELSE S_random)),
                "_", "-")
NormalizeRule(rule) ==
    ReplaceChar(Lower(Strip(IF rule.given THEN rule.chars ELSE <<>>)), "_", "-")

\* mouseclick.py:106 and :112  the names each branch accepts
RandomRules == {S_random, S_rand}
LeftMiddleRules == {S_left_middle, S_leftmid, S_left_mid, S_left_middle_side}

\* mouseclick.py:63-67  BBox.normalized
normalized(b) == Rect(b.x, b.y, Max(b.w, 0), Max(b.h, 0))

\* mouseclick.py:69-71  BBox.is_empty
is_empty_never(b) == FALSE
is_empty(b) == LET n == normalized(b) IN n.w <= 0 \/ n.h <= 0

\* mouseclick.py:56-61  BBox.clamp_point
clamp_point(b, x, y) ==
    LET min_x == b.x
        min_y == b.y
        max_x == b.x + Max(b.w - 1, 0)
        max_y == b.y + Max(b.h - 1, 0)
    IN <<Max(min_x, Min(x, max_x)), Max(min_y, Min(y, max_y))>>

\* mouseclick.py:93  margin = max(int(margin), 0)
EffectiveMarginRaw(margin) == margin
EffectiveMargin(margin) == Max(margin, 0)

\* mouseclick.py:95-103  the inset rectangle, collapsed where it inverts
InnerNoCollapse(b, margin_in) ==
    LET margin == EffectiveMargin(margin_in)
    IN [left   |-> b.x + Min(margin, Max(b.w - 1, 0)),
        top    |-> b.y + Min(margin, Max(b.h - 1, 0)),
        right  |-> b.x + Max(b.w - 1 - margin, 0),
        bottom |-> b.y + Max(b.h - 1 - margin, 0)]
Inner(b, margin_in) ==
    LET margin == EffectiveMargin(margin_in)
        il == b.x + Min(margin, Max(b.w - 1, 0))
        it == b.y + Min(margin, Max(b.h - 1, 0))
        ir == b.x + Max(b.w - 1 - margin, 0)
        ib == b.y + Max(b.h - 1 - margin, 0)
    IN [left   |-> IF ir < il THEN b.x + Max(b.w \div 2, 0) ELSE il,
        top    |-> IF ib < it THEN b.y + Max(b.h \div 2, 0) ELSE it,
        right  |-> IF ir < il THEN b.x + Max(b.w \div 2, 0) ELSE ir,
        bottom |-> IF ib < it THEN b.y + Max(b.h \div 2, 0) ELSE ib]

\* mouseclick.py:114  the y of rule left-middle
LeftMiddleYInset(b, inner) == (inner.top + inner.bottom) \div 2
LeftMiddleY(b, inner) == b.y + Max(b.h \div 2, 0)

(***************************************************************************)
(* random.Random.  A generator made without a seed (mouseclick.py:107) is  *)
(* seeded from system entropy: each draw may return any value of the       *)
(* range.  A generator made from a seed (mouseclick.py:283) is a           *)
(* deterministic sequence of its state; a full-period congruential         *)
(* generator stands for the library's.                                     *)
(***************************************************************************)
SystemRng == [seeded |-> FALSE, state |-> 0]
SeededRng(seed) == [seeded |-> TRUE, state |-> seed % 16]
NoRng == [seeded |-> FALSE, state |-> 0]

RngStep(s) == (5 * s + 3) % 16

\* r.randint(lo, hi): the possible <<value, generator afterwards>>; randint
\* raises ValueError on an empty range (no possible draw)
randint(r, lo, hi) ==
    IF hi < lo THEN {}
    ELSE IF r.seeded
         THEN {<<lo + (r.state % (hi - lo + 1)), [r EXCEPT !.state = RngStep(r.state)]>>}
         ELSE {<<v, r>> : v \in lo..hi}

Raised(err, r) == [status |-> "error", err |-> err, raw |-> <<0, 0>>, point |-> <<0, 0>>, rng |-> r]
Returned(raw, pt, r) == [status |-> "point", err |-> "", raw |-> raw, point |-> pt, rng |-> r]

\* mouseclick.py:74-117  pick_point_in_bbox: the possible outcomes; rng.given
\* tells whether the caller passed a generator.  raw is the point handed to
\* clamp_point, point the value returned
pick_point_in_bbox(bbox, rule, margin, rng) ==
    LET b == normalized(bbox)
    IN IF is_empty(b) THEN {Raised("bbox is empty", rng.gen)}
       ELSE LET inner == Inner(b, margin)
                nrule == NormalizeRule(rule)
            IN IF nrule \in RandomRules
               THEN LET r  == IF rng.given THEN rng.gen ELSE SystemRng
                        xs == randint(r, inner.left, inner.right)
                    IN IF xs = {} THEN {Raised("empty range for randrange()", r)}
                       ELSE UNION {
                              LET ys == randint(xr[2], inner.top, inner.bottom)
                              IN IF ys = {} THEN {Raised("empty range for randrange()", xr[2])}
                                 ELSE {Returned(<<xr[1], yr[1]>>,
                                                clamp_point(b, xr[1], yr[1]), yr[2]) : yr \in ys}
                              : xr \in xs}
               ELSE IF nrule \in LeftMiddleRules
               THEN LET x == inner.left
                        y == LeftMiddleY(b, inner)
                    IN {Returned(<<x, y>>, clamp_point(b, x, y), rng.gen)}
               ELSE {Raised("Unknown rule", rng.gen)}

\* mouseclick.py:283  rng = random.Random(seed) if seed is not None else None;
\* `left` is the generator the previous call left behind, which is not read
MakeRngShared(seed, left) ==
    IF seed.given
    THEN [given |-> TRUE, gen |-> IF left.seeded THEN left ELSE SeededRng(seed.value)]
    ELSE [given |-> FALSE, gen |-> NoRng]
MakeRng(seed, left) ==
    IF seed.given
    THEN [given |-> TRUE, gen |-> SeededRng(seed.value)]
    ELSE [given |-> FALSE, gen |-> NoRng]

\* mouseclick.py:282-288  click_bbox with dry_run set: BBox.from_any of an
\* (x, y, w, h) tuple of integers, the generator, the point selection
click_bbox(a, left) == pick_point_in_bbox(a.bbox, a.rule, a.margin, MakeRng(a.seed, left))

(***************************************************************************)
(* Inputs of click_bbox().                                                 *)
(***************************************************************************)
PickOrigins == {<<0, 0>>, <<-3, 7>>}

PickRects ==
    {Rect(o[1], o[2], w, h) : o \in PickOrigins, w \in (-1)..MaxSide, h \in (-1)..MaxSide}
    \cup {ExampleRect}

PickMargins == ((-1)..MaxMargin) \cup {5, 30}

PickRules ==
    { RuleStr(S_random), RuleStr(S_rand), RuleStr(S_left_middle), RuleStr(S_leftmid),
      RuleStr(S_left_mid), RuleStr(S_left_middle_side),
      RuleStr(<<" ", "R", "a", "n", "d", "o", "m", " ">>),
      RuleStr(<<"L", "E", "F", "T", "_", "M", "I", "D", "D", "L", "E">>),
      RuleStr(<<"c", "e", "n", "t", "e", "r">>),
      RuleStr(<<"r", "a", "n", "d", "o", "m", "_">>),
      RuleStr(<<>>),
      NoRule }

PickSeeds == {NoSeed} \cup {SeedOf(v) : v \in 0..MaxSeed}

ClickArgs(bb, ru, mg, sd) == [bbox |-> bb, rule |-> ru, margin |-> mg, seed |-> sd]

PickInputs ==
    {ClickArgs(bb, ru, mg, sd) : bb \in PickRects, ru \in PickRules,
                                 mg \in PickMargins, sd \in PickSeeds}

SeedInputs ==
    {ClickArgs(bb, ru, mg, sd) :
        bb \in {Rect(0, 0, 3, 2), Rect(-3, 7, 4, 3)},
        ru \in {RuleStr(S_random), RuleStr(S_left_middle)},
        mg \in {0, 1},
        sd \in PickSeeds}

IdleArgs == ClickArgs(Rect(0, 0, 0, 0), NoRule, 0, NoSeed)
IdleRet == [status |-> "idle", err |-> "", raw |-> <<0, 0>>, point |-> <<0, 0>>]
NoProbe == [set |-> FALSE, between |-> FALSE, args |-> IdleArgs, ret |-> IdleRet]

RetOf(o) == [status |-> o.status, err |-> o.err, raw |-> o.raw, point |-> o.point]

(***************************************************************************)
(* Actuation: click_bbox() without dry_run, uinput_move_and_click(),       *)
(* move_cursor_uinput() and ydotool_move_and_click().                      *)
(*                                                                         *)
(* The call's dealings with its environment (the uinput device, the        *)
(* hyprctl cursor-position query, the ydotool commands) are recorded in    *)
(* ck.trace, one entry per operation with its outcome and the ground-truth *)
(* pointer position at that moment.  debug is False throughout.            *)
(***************************************************************************)
MaxSteps == 3

\* mousemovement.py:123-124, 148
step_cap == 400
tolerance == 2
CorrectionIterations == 6

S_left == <<"l", "e", "f", "t">>
S_right == <<"r", "i", "g", "h", "t">>
S_middle == <<"m", "i", "d", "d", "l", "e">>
S_auto == <<"a", "u", "t", "o">>
S_uinput == <<"u", "i", "n", "p", "u", "t">>
S_evdev == <<"e", "v", "d", "e", "v">>
S_ydotool == <<"y", "d", "o", "t", "o", "o", "l">>

\* `(s or dflt)` on an optional string
OrDefault(s, dflt) == IF s.given /\ s.chars # <<>> THEN s.chars ELSE dflt

\* mouseclick.py:190, 223  button = (button or "left").strip().lower()
ButtonNorm(button) == Lower(Strip(OrDefault(button, S_left)))

\* mouseclick.py:290  backend_norm = (backend or "auto").strip().lower()
BackendNorm(backend) == Lower(Strip(OrDefault(backend, S_auto)))

NoCode == ""

\* mouseclick.py:191-195  the evdev button code, None for an unknown name
btn_code(button) ==
    LET b == ButtonNorm(button)
    IN IF b = S_left THEN "BTN_LEFT"
       ELSE IF b = S_right THEN "BTN_RIGHT"
       ELSE IF b = S_middle THEN "BTN_MIDDLE"
       ELSE NoCode

\* mouseclick.py:225-229  the ydotool button code, None for an unknown name
button_code(button) ==
    LET b == ButtonNorm(button)
    IN IF b = S_left THEN "0xC0"
       ELSE IF b = S_right THEN "0xC1"
       ELSE IF b = S_middle THEN "0xC2"
       ELSE NoCode

\* mouseclick.py:196, 230  `if not btn_code:` / `if not button_code:`
UnknownButtonNever(code) == FALSE
UnknownButton(code) == code = NoCode

\* mouseclick.py:285  `if dry_run:`
DryRunIgnored(a) == FALSE
DryRunReturns(a) == a.dry_run

\* a bbox argument: a BBox object, or a list/tuple of integers
BBoxObject(r) == [kind |-> "BBox", rect |-> r, items |-> <<>>]
Tuple(items) == [kind |-> "tuple", rect |-> Rect(0, 0, 0, 0), items |-> items]

\* mouseclick.py:30-54  BBox.from_any on a BBox or a list/tuple (the string
\* forms are not modelled)
from_any(value) ==
    IF value.kind = "BBox" THEN [ok |-> TRUE, rect |-> value.rect]
    ELSE IF value.kind = "tuple" /\ Len(value.items) = 4
    THEN [ok |-> TRUE,
          rect |-> Rect(value.items[1], value.items[2], value.items[3], value.items[4])]
    ELSE [ok |-> FALSE, rect |-> Rect(0, 0, 0, 0)]

\* mousemovement.py:107  steps = max(int(steps), 1)
EffectiveSteps(steps) == Max(steps, 1)

\* round() of the exact quotient p / q, q > 0: to nearest, ties to even
RoundHalfEven(p, q) ==
    LET f == p \div q
        r == p % q
    IN IF 2 * r < q THEN f
       ELSE IF 2 * r > q THEN f + 1
       ELSE IF f % 2 = 0 THEN f ELSE f + 1

\* mousemovement.py:115-117, 129-132  int(round(start + (x - start) * ease(i / steps)))
\* with ease(t) = t*t*(3 - 2t) = i*i*(3*steps - 2*i) / steps^3
StepTargetNoCubic(start, x, i, steps) ==
    RoundHalfEven(start * steps * steps + (x - start) * i * i * 3, steps * steps)
StepTarget(start, x, i, steps) ==
    RoundHalfEven(start * steps * steps * steps + (x - start) * i * i * (3 * steps - 2 * i),
                  steps * steps * steps)

\* mousemovement.py:131-132  the interpolation starts from start_x / start_y,
\* read once before the loop, not from the position just read
StepAnchorCurrent(start, cur) == cur
StepAnchor(start, cur) == start

\* mousemovement.py:137-138, 154-155  max(-step_cap, min(step_cap, d))
ClampStepNone(d) == d
ClampStep(d) == Max(-step_cap, Min(step_cap, d))

\* mousemovement.py:139, 141, 156, 158  `if mx:` / `if my:`
EmitsAxisAlways(m) == TRUE
EmitsAxis(m) == m # 0

Abs(n) == IF n < 0 THEN -n ELSE n

\* mousemovement.py:152  abs(dx) <= tolerance and abs(dy) <= tolerance
WithinToleranceExact(dx, dy) == dx = 0 /\ dy = 0
WithinTolerance(dx, dy) == Abs(dx) <= tolerance /\ Abs(dy) <= tolerance

\* how the receiving system turns a commanded relative motion into pointer
\* motion: as commanded, not at all, or doubled (acceleration)
Channels == {"faithful", "drop", "double"}
Distort(ch, m) ==
    IF ch = "faithful" THEN m
    ELSE IF ch = "drop" THEN 0
    ELSE 2 * m

\* one entry of the trace
Ev(type, code, value, ok, at) ==
    [type |-> type, code |-> code, value |-> value, ok |-> ok, at |-> at]

\* mousemovement.py:134-143, 149-160  one loop pass from the position query
\* to syn(): the operations issued when the pass fails at `f` ("none": it
\* does not fail)
MoveFailPoints == {"none", "query", "write_x", "write_y", "syn"}

MovePossible(f, mx, my) ==
    /\ f = "write_x" => EmitsAxis(mx)
    /\ f = "write_y" => EmitsAxis(my)

Query(ok, at) == <<Ev("cursorpos", "", 0, ok, at)>>

MovePass(f, mx, my, at) ==
    LET q  == Query(f # "query", at)
        wx == IF EmitsAxis(mx) THEN <<Ev("EV_REL", "REL_X", mx, f # "write_x", at)>> ELSE <<>>
        wy == IF EmitsAxis(my) THEN <<Ev("EV_REL", "REL_Y", my, f # "write_y", at)>> ELSE <<>>
        s  == <<Ev("EV_SYN", "SYN_REPORT", 0, f # "syn", at)>>
    IN IF f = "query" THEN q
       ELSE IF f = "write_x" THEN q \o wx
       ELSE IF f = "write_y" THEN q \o wx \o wy
       ELSE q \o wx \o wy \o s

\* mouseclick.py:204-205, 207-208  ui.write(EV_KEY, btn_code, value); ui.syn()
KeyFailPoints == {"none", "write", "syn"}

KeyPassNoSyn(f, code, value, at) == <<Ev("EV_KEY", code, value, f # "write", at)>>
KeyPass(f, code, value, at) ==
    LET w == <<Ev("EV_KEY", code, value, f # "write", at)>>
        s == <<Ev("EV_SYN", "SYN_REPORT", 0, f # "syn", at)>>
    IN IF f = "write" THEN w ELSE w \o s

\* mouseclick.py:200  `with create_uinput_mouse(...) as ui:` releases the
\* device when the block is left, with or without an exception in flight
ChannelsAfterExitLeaky(open, exc) == IF exc = "" THEN open - 1 ELSE open
ChannelsAfterExit(open, exc) == open - 1

\* mouseclick.py:200-208, mousemovement.py:126-161  no handler inside the
\* with block: a failure leaves the block at once
OnFailureRetry(pc) == pc
OnFailure(pc) == "closing"

(***************************************************************************)
(* Inputs of click_bbox() with actuation.                                  *)
(***************************************************************************)
CallArgs(bb, ru, mg, sd, bt, be, st, dr) ==
    [bbox |-> bb, rule |-> ru, margin |-> mg, seed |-> sd, button |-> bt,
     backend |-> be, move_steps |-> st, dry_run |-> dr]

ClickBoxes ==
    { Tuple(<<100, 100, 50, 40>>),          \* ExampleRect as a tuple
      Tuple(<<100, 100, 50>>),              \* three items
      BBoxObject(Rect(100, 100, 0, 40)) }   \* an empty rectangle

ClickRules == {RuleStr(S_left_middle), RuleStr(<<"c", "e", "n", "t", "e", "r">>)}

ClickButtons ==
    { RuleStr(S_left), RuleStr(<<" ", "R", "I", "G", "H", "T", " ">>), NoRule,
      RuleStr(<<"d", "o", "u", "b", "l", "e">>) }

ClickBackends ==
    { RuleStr(S_auto), NoRule, RuleStr(<<" ", " ">>),
      RuleStr(<<" ", "U", "i", "n", "p", "u", "t", " ">>), RuleStr(S_evdev),
      RuleStr(S_ydotool),
      RuleStr(<<"x", "d", "o", "t", "o", "o", "l">>) }

ClickInputs ==
    {CallArgs(bb, ru, 5, NoSeed, bt, be, st, dr) :
        bb \in ClickBoxes, ru \in ClickRules, bt \in ClickButtons,
        be \in ClickBackends, st \in 0..MaxSteps, dr \in BOOLEAN}

\* where the pointer is when the call starts: on the point the selector
\* picks for ExampleRect (105, 120), within the tolerance of it, and farther
ClickStarts == {<<105, 120>>, <<104, 122>>, <<100, 130>>, <<0, 0>>, <<-3000, 120>>}

IdleCall ==
    CallArgs(Tuple(<<0, 0, 0, 0>>), NoRule, 0, NoSeed, NoRule, NoRule, 0, TRUE)

NewCall(a) ==
    [args |-> a, pc |-> "idle", point |-> <<0, 0>>, fallback |-> FALSE, steps |-> 1,
     start |-> <<0, 0>>, i |-> 0, open |-> 0, exc |-> "", err |-> "", trace |-> <<>>]

ClickIdle ==
    /\ ck = NewCall(IdleCall)
    /\ cursor = <<0, 0>>
    /\ channel = "faithful"

(***************************************************************************)
(* Inputs of the order-of-delivery comparison: up to MaxPermWords words on *)
(* a 2 x 2 lattice of unit boxes one unit apart, under thresholds that     *)
(* join or separate neighbours, and the scenarios above.                   *)
(***************************************************************************)
MaxPermWords == 3

PermWords == {Word(FALSE, x, y, 1, 1) : x \in {0, 2}, y \in {0, 2}}
PermData == UNION {[1..n -> PermWords] : n \in 0..MaxPermWords} \cup ScenarioData
PermThresh == {0, 1}
PermGroupThresh == {-1, 0, 2}

NoPerm == [status |-> "idle", perm |-> <<>>, results |-> <<>>]

\* the words of d delivered in the order p: position k carries d[p[k]]
Deliver(d, p) == [k \in 1..Len(d) |-> d[p[k]]]

(***************************************************************************)
(* Inputs of bbox_for_contains(): result lists of up to MaxResults items   *)
(* whose bbox tells the item's position in the list.                       *)
(***************************************************************************)
MaxResults == 4

FindTexts == {<<"a">>, <<"B", " ">>, <<"c", " ", "d">>}
FindNeedles == {<<"a">>, <<" ", "b">>, <<"b", " ", "c">>, <<"z">>, <<>>}

Item(t, k) == [text |-> t, bbox |-> <<k, 0, 1, 1>>]
FindResults ==
    UNION {{[k \in 1..n |-> Item(ts[k], k)] : ts \in [1..n -> FindTexts]} : n \in 0..MaxResults}

NoFind == [results |-> <<>>, needle |-> <<>>, strict |-> FALSE,
           ret |-> [status |-> "idle", bbox |-> <<>>]]

AuxIdle ==
    /\ ocr_perm = NoPerm
    /\ bf = NoFind

(***************************************************************************)
(* The clustering state machine: the OCR data is delivered, then ocr() is  *)
(* called once on it, in chunk mode or with a mode it does not know (the   *)
(* line mode of ocr.py:34-54 is not modelled).                             *)
(***************************************************************************)
OcrIdle ==
    /\ ocr_args = OcrArgs("chunk", DefaultXThresh, DefaultYThresh, DefaultGroupYThresh)
    /\ ocr_ret = [status |-> "idle", results |-> <<>>]

PickIdle ==
    /\ pk_args = IdleArgs
    /\ pk_ret = IdleRet
    /\ pk_rng = NoRng
    /\ pk_probe = NoProbe

OcrInit ==
    /\ data \in GridData \cup ScenarioData
    /\ OcrIdle
    /\ PickIdle
    /\ ClickIdle
    /\ AuxIdle

OcrChunk ==
    /\ ocr_ret.status = "idle"
    /\ \E xt \in XThreshInputs, yt \in YThreshInputs, gyt \in GroupThreshInputs :
          /\ ocr_args' = OcrArgs("chunk", xt, yt, gyt)
          /\ ocr_ret' = ocr(data, ocr_args')
    /\ UNCHANGED <<data, pk_vars, ck_vars, aux_vars>>

OcrBadMode ==
    /\ ocr_ret.status = "idle"
    /\ ocr_args' = [ocr_args EXCEPT !.mode = "word"]
    /\ ocr_ret' = ocr(data, ocr_args')
    /\ UNCHANGED <<data, pk_vars, ck_vars, aux_vars>>

OcrNext == OcrChunk \/ OcrBadMode

SpecOcr == OcrInit /\ [][OcrNext]_vars

(***************************************************************************)
(* Point selection, one call: click_bbox(..., dry_run=True) on arguments   *)
(* drawn from PickInputs.                                                  *)
(***************************************************************************)
PickInit ==
    /\ data = <<>>
    /\ OcrIdle
    /\ pk_args \in PickInputs
    /\ pk_ret = IdleRet
    /\ pk_rng = NoRng
    /\ pk_probe = NoProbe
    /\ ClickIdle
    /\ AuxIdle

ClickBboxDryRun ==
    /\ pk_ret.status = "idle"
    /\ \E o \in click_bbox(pk_args, pk_rng) :
          /\ pk_ret' = RetOf(o)
          /\ pk_rng' = o.rng
    /\ UNCHANGED <<pk_args, pk_probe, ocr_vars, ck_vars, aux_vars>>

PickNext == ClickBboxDryRun

SpecPick == PickInit /\ [][PickNext]_vars

(***************************************************************************)
(* Point selection, call after call: any number of click_bbox dry runs on  *)
(* arguments of SeedInputs.  KeepProbe records the latest call, once, to   *)
(* compare later calls with it.                                            *)
(***************************************************************************)
SeedInit ==
    /\ data = <<>>
    /\ OcrIdle
    /\ PickIdle
    /\ ClickIdle
    /\ AuxIdle

ClickBboxAgain ==
    \E a \in SeedInputs :
        \E o \in click_bbox(a, pk_rng) :
            /\ pk_args' = a
            /\ pk_ret' = RetOf(o)
            /\ pk_rng' = o.rng
            /\ pk_probe' = IF pk_probe.set /\ a # pk_probe.args
                            THEN [pk_probe EXCEPT !.between = TRUE]
                            ELSE pk_probe
            /\ UNCHANGED <<ocr_vars, ck_vars, aux_vars>>

KeepProbe ==
    /\ pk_ret.status # "idle"
    /\ ~pk_probe.set
    /\ pk_probe' = [set |-> TRUE, between |-> FALSE, args |-> pk_args, ret |-> pk_ret]
    /\ UNCHANGED <<pk_args, pk_ret, pk_rng, ocr_vars, ck_vars, aux_vars>>

SeedNext == ClickBboxAgain \/ KeepProbe

SpecSeed == SeedInit /\ [][SeedNext]_vars

(***************************************************************************)
(* The actuation state machine: one click_bbox() call on arguments of      *)
(* ClickInputs, followed step by step.  ck.pc is the call's position:      *)
(*   idle -> uinput -> move_start -> anim -> corr -> press -> release ->   *)
(*   closing -> returned | raised, and ydotool -> ydo_move -> ydo_click.   *)
(***************************************************************************)
Log(c, es) == [c EXCEPT !.trace = @ \o es]

\* click_bbox raises `e`
Raise(c, e) == [c EXCEPT !.pc = "raised", !.err = e]

\* mouseclick.py:293-307, 309-318  uinput_move_and_click raised `e`: with the
\* auto backend the handler calls ydotool_move_and_click, else e propagates
UinputRaised(c, e) ==
    IF c.fallback
    THEN [c EXCEPT !.pc = "ydotool", !.fallback = FALSE, !.exc = ""]
    ELSE [c EXCEPT !.pc = "raised", !.err = e, !.exc = ""]

\* a failure inside the with block of uinput_move_and_click
Fail(c, e) == [c EXCEPT !.pc = OnFailure(@), !.exc = e]

ClickInit ==
    /\ data = <<>>
    /\ OcrIdle
    /\ PickIdle
    /\ ck \in {NewCall(a) : a \in ClickInputs}
    /\ cursor \in ClickStarts
    /\ channel \in Channels
    /\ AuxIdle

\* mouseclick.py:282-324  click_bbox up to the call of a backend
ClickBboxCall ==
    /\ ck.pc = "idle"
    /\ LET a  == ck.args
           bb == from_any(a.bbox)
       IN IF ~bb.ok THEN ck' = Raise(ck, "Unsupported bbox format")
          ELSE \E o \in click_bbox(ClickArgs(bb.rect, a.rule, a.margin, a.seed), NoRng) :
                 IF o.status = "error" THEN ck' = Raise(ck, o.err)
                 ELSE LET c  == [ck EXCEPT !.point = o.point]
                          be == BackendNorm(a.backend)
                      IN IF DryRunReturns(a) THEN ck' = [c EXCEPT !.pc = "returned"]
                         ELSE IF be \in {S_auto, <<>>}
                         THEN ck' = [c EXCEPT !.pc = "uinput", !.fallback = TRUE]
                         ELSE IF be \in {S_uinput, S_evdev}
                         THEN ck' = [c EXCEPT !.pc = "uinput"]
                         ELSE IF be = S_ydotool
                         THEN ck' = [c EXCEPT !.pc = "ydotool"]
                         ELSE ck' = Raise(c, "backend must be one of: auto, uinput, ydotool")
    /\ UNCHANGED <<cursor, channel, ocr_vars, pk_vars, aux_vars>>

\* mouseclick.py:185-200  uinput_move_and_click up to the opened device: the
\* evdev import, the button name, create_uinput_mouse()
UinputEnter ==
    /\ ck.pc = "uinput"
    /\ \E evdev_ok \in BOOLEAN, open_ok \in BOOLEAN :
          ck' = IF ~evdev_ok
                THEN UinputRaised(ck, "evdev is required for uinput backend")
                ELSE IF UnknownButton(btn_code(ck.args.button))
                THEN UinputRaised(ck, "button must be one of: left, right, middle")
                ELSE IF ~open_ok
                THEN UinputRaised(Log(ck, <<Ev("open", "", 0, FALSE, cursor)>>),
                                  "cannot open /dev/uinput")
                ELSE [Log(ck, <<Ev("open", "", 0, TRUE, cursor)>>)
                        EXCEPT !.pc = "move_start", !.open = @ + 1]
    /\ UNCHANGED <<cursor, channel, ocr_vars, pk_vars, aux_vars>>

\* mousemovement.py:107-111  move_cursor_uinput up to the animation loop
MoveStart ==
    /\ ck.pc = "move_start"
    /\ \E query_ok \in BOOLEAN :
          ck' = IF query_ok
                THEN [Log(ck, Query(TRUE, cursor))
                        EXCEPT !.steps = EffectiveSteps(ck.args.move_steps),
                               !.start = cursor, !.i = 1, !.pc = "anim"]
                ELSE Fail(Log(ck, Query(FALSE, cursor)), "hyprctl failed")
    /\ UNCHANGED <<cursor, channel, ocr_vars, pk_vars, aux_vars>>

Moved(mx, my) == <<cursor[1] + Distort(channel, mx), cursor[2] + Distort(channel, my)>>

\* mousemovement.py:128-145  one pass of the animation loop
AnimStep ==
    /\ ck.pc = "anim"
    /\ LET sx == StepAnchor(ck.start[1], cursor[1])
           sy == StepAnchor(ck.start[2], cursor[2])
           mx == ClampStep(StepTarget(sx, ck.point[1], ck.i, ck.steps) - cursor[1])
           my == ClampStep(StepTarget(sy, ck.point[2], ck.i, ck.steps) - cursor[2])
       IN \E f \in MoveFailPoints :
             /\ MovePossible(f, mx, my)
             /\ LET c == Log(ck, MovePass(f, mx, my, cursor))
                IN IF f = "none"
                   THEN /\ ck' = IF ck.i = ck.steps
                                 THEN [c EXCEPT !.pc = "corr", !.i = 0]
                                 ELSE [c EXCEPT !.i = @ + 1]
                        /\ cursor' = Moved(mx, my)
                   ELSE /\ ck' = Fail(c, IF f = "query" THEN "hyprctl failed" ELSE "write failed")
                        /\ UNCHANGED cursor
    /\ UNCHANGED <<channel, ocr_vars, pk_vars, aux_vars>>

\* mousemovement.py:148-161  one pass of the correction loop
CorrStep ==
    /\ ck.pc = "corr"
    /\ LET dx == ck.point[1] - cursor[1]
           dy == ck.point[2] - cursor[2]
           mx == ClampStep(dx)
           my == ClampStep(dy)
       IN \E f \in MoveFailPoints :
             IF f = "query"
             THEN /\ ck' = Fail(Log(ck, MovePass(f, mx, my, cursor)), "hyprctl failed")
                  /\ UNCHANGED cursor
             ELSE IF WithinTolerance(dx, dy)
             THEN /\ f = "none"
                  /\ ck' = [Log(ck, Query(TRUE, cursor)) EXCEPT !.pc = "press"]
                  /\ UNCHANGED cursor
             ELSE /\ MovePossible(f, mx, my)
                  /\ LET c == Log(ck, MovePass(f, mx, my, cursor))
                     IN IF f = "none"
                        THEN /\ ck' = IF ck.i + 1 = CorrectionIterations
                                      THEN [c EXCEPT !.pc = "press"]
                                      ELSE [c EXCEPT !.i = @ + 1]
                             /\ cursor' = Moved(mx, my)
                        ELSE /\ ck' = Fail(c, "write failed")
                             /\ UNCHANGED cursor
    /\ UNCHANGED <<channel, ocr_vars, pk_vars, aux_vars>>

\* mouseclick.py:204-205  button down, syn
Press ==
    /\ ck.pc = "press"
    /\ \E f \in KeyFailPoints :
          LET c == Log(ck, KeyPass(f, btn_code(ck.args.button), 1, cursor))
          IN ck' = IF f = "none" THEN [c EXCEPT !.pc = "release"] ELSE Fail(c, "write failed")
    /\ UNCHANGED <<cursor, channel, ocr_vars, pk_vars, aux_vars>>

\* mouseclick.py:207-208  button up, syn
Release ==
    /\ ck.pc = "release"
    /\ \E f \in KeyFailPoints :
          LET c == Log(ck, KeyPass(f, btn_code(ck.args.button), 0, cursor))
          IN ck' = IF f = "none" THEN [c EXCEPT !.pc = "closing"] ELSE Fail(c, "write failed")
    /\ UNCHANGED <<cursor, channel, ocr_vars, pk_vars, aux_vars>>

\* mouseclick.py:200  leaving the with block: the device is closed, then the
\* exception in flight (or the one close raised) propagates, or the call
\* returns and click_bbox returns the point
CloseChannel ==
    /\ ck.pc = "closing"
    /\ \E close_ok \in BOOLEAN :
          LET c == [Log(ck, <<Ev("close", "", 0, close_ok, cursor)>>)
                      EXCEPT !.open = ChannelsAfterExit(@, ck.exc)]
          IN ck' = IF ck.exc # "" THEN UinputRaised(c, ck.exc)
                   ELSE IF ~close_ok THEN UinputRaised(c, "close failed")
                   ELSE [c EXCEPT !.pc = "returned", !.fallback = FALSE]
    /\ UNCHANGED <<cursor, channel, ocr_vars, pk_vars, aux_vars>>

\* mouseclick.py:222-231  ydotool_move_and_click up to the commands
YdotoolEnter ==
    /\ ck.pc = "ydotool"
    /\ \E found \in BOOLEAN :
          ck' = IF ~found THEN Raise(ck, "ydotool not found in PATH")
                ELSE IF UnknownButton(button_code(ck.args.button))
                THEN Raise(ck, "button must be one of: left, right, middle")
                ELSE [ck EXCEPT !.pc = "ydo_move"]
    /\ UNCHANGED <<cursor, channel, ocr_vars, pk_vars, aux_vars>>

\* mouseclick.py:249, 251-262  ydotool mousemove -a -x X -y Y
YdotoolMove ==
    /\ ck.pc = "ydo_move"
    /\ \E ok \in BOOLEAN :
          LET c == Log(ck, <<Ev("ydotool", "mousemove", 0, ok, cursor)>>)
          IN /\ ck' = IF ok THEN [c EXCEPT !.pc = "ydo_click"] ELSE Raise(c, "ydotool failed")
             /\ cursor' = IF ok THEN ck.point ELSE cursor
    /\ UNCHANGED <<channel, ocr_vars, pk_vars, aux_vars>>

\* mouseclick.py:250-262  ydotool click CODE
YdotoolClick ==
    /\ ck.pc = "ydo_click"
    /\ \E ok \in BOOLEAN :
          LET c == Log(ck, <<Ev("ydotool", button_code(ck.args.button), 0, ok, cursor)>>)
          IN ck' = IF ok THEN [c EXCEPT !.pc = "returned"] ELSE Raise(c, "ydotool failed")
    /\ UNCHANGED <<cursor, channel, ocr_vars, pk_vars, aux_vars>>

ClickNext ==
    \/ ClickBboxCall
    \/ UinputEnter
    \/ MoveStart
    \/ AnimStep
    \/ CorrStep
    \/ Press
    \/ Release
    \/ CloseChannel
    \/ YdotoolEnter
    \/ YdotoolMove
    \/ YdotoolClick

SpecClick == ClickInit /\ [][ClickNext]_vars

(***************************************************************************)
(* The clustering, twice on the same words: ocr() on the data as           *)
(* delivered, then ocr() with the same thresholds on the data delivered in *)
(* another order.                                                          *)
(***************************************************************************)
PermInit ==
    /\ data \in PermData
    /\ OcrIdle
    /\ PickIdle
    /\ ClickIdle
    /\ AuxIdle

OcrFirst ==
    /\ ocr_ret.status = "idle"
    /\ \E xt \in IF data \in ScenarioData THEN ScenarioXThresh ELSE PermThresh,
          yt \in IF data \in ScenarioData THEN ScenarioYThresh ELSE PermThresh,
          gyt \in PermGroupThresh :
          /\ ocr_args' = OcrArgs("chunk", xt, yt, gyt)
          /\ ocr_ret' = ocr(data, ocr_args')
    /\ UNCHANGED <<data, pk_vars, ck_vars, aux_vars>>

OcrPermuted ==
    /\ ocr_ret.status = "ok"
    /\ ocr_perm.status = "idle"
    /\ \E p \in Permutations(1..Len(data)) :
          LET r == ocr(Deliver(data, p), ocr_args)
          IN ocr_perm' = [status |-> r.status, perm |-> p, results |-> r.results]
    /\ UNCHANGED <<ocr_vars, pk_vars, ck_vars, bf>>

PermNext == OcrFirst \/ OcrPermuted

SpecPerm == PermInit /\ [][PermNext]_vars

(***************************************************************************)
(* bbox_for_contains() (src/main.py): the bbox of the first result whose   *)
(* text contains the needle, or, in strict mode, the bbox three items      *)
(* after the first item whose following items contain it together.         *)
(***************************************************************************)
\* `nd in hay` on strings
Contains(hay, nd) ==
    \E st \in 0..(Len(hay) - Len(nd)) : SubSeq(hay, st + 1, st + Len(nd)) = nd

\* " ".join(l)
RECURSIVE JoinSpace(_)
JoinSpace(l) ==
    IF l = <<>> THEN <<>>
    ELSE IF Len(l) = 1 THEN l[1]
    ELSE l[1] \o <<" ">> \o JoinSpace(Tail(l))

\* main.py:36-40  the texts of the items after item k (at most three),
\* stripped, lower-cased and joined; k counts from 1
Combined(results, k) ==
    JoinSpace([a \in 1..(Min(k + 3, Len(results)) - k) |-> Lower(Strip(results[k + a].text))])

FoundBBox(b) == [status |-> "bbox", bbox |-> b]
FoundNone == [status |-> "none", bbox |-> <<>>]
IndexError == [status |-> "IndexError", bbox |-> <<>>]

\* main.py:44  ocr_results[idx+3]['bbox']
StrictPick(results, k) ==
    IF k + 3 <= Len(results) THEN FoundBBox(results[k + 3].bbox) ELSE IndexError

\* main.py:33-48  the loop from item k on
RECURSIVE FindFrom(_, _, _, _)
FindFrom(results, n, strict, k) ==
    IF k > Len(results) THEN FoundNone
    ELSE IF strict /\ Contains(Combined(results, k), n) THEN StrictPick(results, k)
    ELSE IF Contains(Lower(results[k].text), n) THEN FoundBBox(results[k].bbox)
    ELSE FindFrom(results, n, strict, k + 1)

\* main.py:31-48
bbox_for_contains(ocr_results, needle, strict) ==
    FindFrom(ocr_results, Lower(Strip(needle)), strict, 1)

FindInit ==
    /\ data = <<>>
    /\ OcrIdle
    /\ PickIdle
    /\ ClickIdle
    /\ ocr_perm = NoPerm
    /\ bf \in {[NoFind EXCEPT !.results = r, !.needle = nd, !.strict = st] :
                 r \in FindResults, nd \in FindNeedles, st \in BOOLEAN}

BboxForContains ==
    /\ bf.ret.status = "idle"
    /\ bf' = [bf EXCEPT !.ret = bbox_for_contains(bf.results, bf.needle, bf.strict)]
    /\ UNCHANGED <<ocr_vars, pk_vars, ck_vars, ocr_perm>>

FindNext == BboxForContains

SpecFind == FindInit /\ [][FindNext]_vars

(***************************************************************************)
(* Vocabulary of the clustering claims, stated on the input data and the   *)
(* returned list only.                                                     *)
(***************************************************************************)
Res == ocr_ret.results

OcrReturned == ocr_ret.status = "ok"

\* the input word boxes: the delivered words whose text is not blank
BoxIds == {i \in 1..Len(data) : ~data[i].blank}

\* the places (chunk, position in its text) where word i occurs in the output
Occurrences(i) ==
    {p \in UNION {{<<c, k>> : k \in 1..Len(Res[c].text)} : c \in 1..Len(Res)} :
        Res[p[1]].text[p[2]] = i}

Members(c) == {Res[c].text[k] : k \in 1..Len(Res[c].text)}

SameChunk(i, j) == \E c \in 1..Len(Res) : i \in Members(c) /\ j \in Members(c)

\* the separating gap of two intervals [lo1, hi1] and [lo2, hi2] on one axis
SepGap(lo1, hi1, lo2, hi2) ==
    IF lo2 > hi1 THEN lo2 - hi1 ELSE IF lo1 > hi2 THEN lo1 - hi2 ELSE 0

XGap(i, j) == SepGap(data[i].x, data[i].x + data[i].w, data[j].x, data[j].x + data[j].w)
YGap(i, j) == SepGap(data[i].y, data[i].y + data[i].h, data[j].y, data[j].y + data[j].h)

Close(i, j) == XGap(i, j) <= ocr_args.x_thresh /\ YGap(i, j) <= ocr_args.y_thresh

\* the boxes linked to a box of S by a chain of close pairs
RECURSIVE ChainClosure(_)
ChainClosure(S) ==
    LET N == S \cup {j \in BoxIds : \E i \in S : Close(i, j)}
    IN IF N = S THEN S ELSE ChainClosure(N)

Chained(i, j) == j \in ChainClosure({i})

\* C1: for a non-empty input, every input word box occurs in exactly one
\* place of exactly one output chunk, and the chunks hold nothing else.
C1_Partition ==
    (OcrReturned /\ BoxIds # {}) =>
        /\ \A i \in BoxIds : Cardinality(Occurrences(i)) = 1
        /\ \A c \in 1..Len(Res) : Members(c) \subseteq BoxIds /\ Members(c) # {}

C1_Witness ==
    /\ OcrReturned
    /\ Cardinality(BoxIds) >= 3
    /\ Len(Res) = 2
    /\ \E c \in 1..Len(Res) : Cardinality(Members(c)) >= 2

C3_TouchingAlwaysMerge ==
    OcrReturned =>
        \A i, j \in BoxIds :
            (i # j /\ XGap(i, j) = 0 /\ YGap(i, j) = 0) => SameChunk(i, j)

\* C3 amended: two boxes with x_gap = 0 and y_gap = 0 are in the same chunk
\* for every x_thresh >= 0 and y_thresh >= 0.
C3_TouchingMergeNonNegative ==
    (OcrReturned /\ ocr_args.x_thresh >= 0 /\ ocr_args.y_thresh >= 0) =>
        \A i, j \in BoxIds :
            (i # j /\ XGap(i, j) = 0 /\ YGap(i, j) = 0) => SameChunk(i, j)

C3_Witness ==
    /\ OcrReturned
    /\ ocr_args.x_thresh = 0 /\ ocr_args.y_thresh = 0
    /\ \E i, j \in BoxIds :
          /\ i # j
          /\ XGap(i, j) = 0 /\ YGap(i, j) = 0
          /\ SameChunk(i, j)

\* C4: two boxes whose x_gap exceeds x_thresh are two chunks when they are
\* the only input boxes, whatever their y_gap, and share a chunk only if a
\* third box is in it; the scenario words with x_thresh = 2 stay two chunks.
C4_WideGapNotDirect ==
    OcrReturned =>
        /\ \A i, j \in BoxIds :
              (i # j /\ XGap(i, j) > ocr_args.x_thresh) =>
                  /\ BoxIds = {i, j} => (Len(Res) = 2 /\ ~SameChunk(i, j))
                  /\ SameChunk(i, j) =>
                        \E k \in BoxIds \ {i, j} : SameChunk(i, k)
        /\ (data = <<Paris, France>> /\ ocr_args.x_thresh = 2) => Len(Res) = 2

C4_Witness ==
    /\ OcrReturned
    /\ \E i, j \in BoxIds :
          /\ BoxIds = {i, j}
          /\ XGap(i, j) = ocr_args.x_thresh + 1
          /\ YGap(i, j) <= ocr_args.y_thresh
          /\ Len(Res) = 2

\* C5: the returned list is sorted by the top edge of the bounding box,
\* ascending, and group_id never decreases along it.
C5_SortedByTop ==
    OcrReturned =>
        \A k \in 1..(Len(Res) - 1) :
            /\ Res[k].bbox[2] <= Res[k + 1].bbox[2]
            /\ Res[k].group_id <= Res[k + 1].group_id

\* the chunk merged first is returned behind a chunk merged later
C5_Witness ==
    /\ OcrReturned
    /\ \E k \in 1..(Len(Res) - 1) :
          /\ Res[k].text[1] > Res[k + 1].text[1]
          /\ Res[k].bbox[2] < Res[k + 1].bbox[2]
          /\ Res[k].group_id < Res[k + 1].group_id

\* C6: a chunk-mode call on data without any non-blank word returns the
\* empty list and raises nothing.
C6_EmptyInput ==
    (ocr_ret.status # "idle" /\ ocr_args.mode = "chunk" /\ BoxIds = {}) =>
        ocr_ret = [status |-> "ok", results |-> <<>>]

C6_Witness ==
    /\ OcrReturned
    /\ Len(data) >= 2
    /\ BoxIds = {}
    /\ Res = <<>>

(***************************************************************************)
(* Chunk geometry, group ids and text order.                               *)
(***************************************************************************)
SetMin(S) == CHOOSE m \in S : \A n \in S : m <= n
SetMax(S) == CHOOSE m \in S : \A n \in S : m >= n

\* C18: each chunk's bbox is the union bounding box of its member words:
\* x, y the least left and top, w and h the greatest right and bottom minus
\* them; Paris and France with x_thresh=20, y_thresh=4 give (10,10,70,10).
C18_UnionBBox ==
    OcrReturned =>
        /\ \A c \in 1..Len(Res) :
              LET ms == Members(c)
                  x  == SetMin({data[i].x : i \in ms})
                  y  == SetMin({data[i].y : i \in ms})
                  r  == SetMax({data[i].x + data[i].w : i \in ms})
                  b  == SetMax({data[i].y + data[i].h : i \in ms})
                  bb == Res[c].bbox
              IN /\ bb = <<x, y, r - x, b - y>>
                 /\ \A i \in ms :
                       /\ bb[1] <= data[i].x /\ data[i].x + data[i].w <= bb[1] + bb[3]
                       /\ bb[2] <= data[i].y /\ data[i].y + data[i].h <= bb[2] + bb[4]
        /\ (data = <<Paris, France>> /\ ocr_args.x_thresh = 20 /\ ocr_args.y_thresh = 4) =>
              (Len(Res) = 1 /\ Res[1].text = <<1, 2>> /\ Res[1].bbox = <<10, 10, 70, 10>>)

C18_Witness ==
    /\ OcrReturned
    /\ data = <<Paris, France>>
    /\ ocr_args.x_thresh = 20 /\ ocr_args.y_thresh = 4
    /\ Len(Res) = 1
    /\ Res[1].bbox = <<10, 10, 70, 10>>

GroupIds == {Res[k].group_id : k \in 1..Len(Res)}

RECURSIVE Ascending(_)
Ascending(S) == IF S = {} THEN <<>> ELSE <<SetMin(S)>> \o Ascending(S \ {SetMin(S)})

Range(seq) == {seq[k] : k \in 1..Len(seq)}

\* the merge order grown from `seq`: the box at position pos is expanded by
\* the boxes close to it that are not yet in seq, in input order
RECURSIVE MergeOrder(_, _)
MergeOrder(seq, pos) ==
    IF pos > Len(seq) THEN seq
    ELSE MergeOrder(seq \o Ascending({j \in BoxIds \ Range(seq) : Close(seq[pos], j)}),
                    pos + 1)

ArgRect == pk_args.bbox

PickReturned == pk_ret.status = "point"
PickRaised == pk_ret.status = "error"
PickCalled == pk_ret.status # "idle"

NonEmptyRect == ArgRect.w >= 1 /\ ArgRect.h >= 1

RuleIsRandom == pk_args.rule = RuleStr(S_random)
RuleIsLeftMiddle == pk_args.rule = RuleStr(S_left_middle)

InsideRect(pt) ==
    /\ ArgRect.x <= pt[1] /\ pt[1] <= ArgRect.x + ArgRect.w - 1
    /\ ArgRect.y <= pt[2] /\ pt[2] <= ArgRect.y + ArgRect.h - 1

\* the margin in effect: a negative margin counts as 0
MarginInEffect == IF pk_args.margin < 0 THEN 0 ELSE pk_args.margin

\* the left edge of the rectangle inset by the margin: x + margin while the
\* inset does not invert, the horizontal midpoint once it would
InsetLeft ==
    IF ArgRect.x + MarginInEffect <= ArgRect.x + ArgRect.w - 1 - MarginInEffect
    THEN ArgRect.x + MarginInEffect
    ELSE ArgRect.x + (ArgRect.w \div 2)

\* C7: for a rectangle with w >= 1 and h >= 1, every margin and both rules,
\* the returned point lies in [x, x+w-1] x [y, y+h-1], and so does the point
\* computed before the final clamp, which the clamp leaves unchanged.
C7_PointInsideRect ==
    (PickReturned /\ NonEmptyRect) =>
        /\ InsideRect(pk_ret.point)
        /\ InsideRect(pk_ret.raw)
        /\ pk_ret.point = pk_ret.raw

\* a random point on the right edge, drawn with a negative margin
C7_Witness ==
    /\ PickReturned
    /\ RuleIsRandom
    /\ pk_args.margin < 0
    /\ ArgRect.w >= 2 /\ ArgRect.h >= 2
    /\ pk_ret.point[1] = ArgRect.x + ArgRect.w - 1
    /\ pk_ret.point[2] = ArgRect.y

\* C8: rule left-middle on a non-empty rectangle returns x = the inset left
\* edge (x0 + margin while the inset does not invert) and y = y0 + h div 2
\* whatever the margin; (100,100,50,40) with margin 5 gives (105, 120).
C8_LeftMiddle ==
    (PickCalled /\ RuleIsLeftMiddle /\ NonEmptyRect) =>
        /\ PickReturned
        /\ pk_ret.point[1] = InsetLeft
        /\ pk_ret.point[2] = ArgRect.y + (ArgRect.h \div 2)
        /\ (ArgRect = ExampleRect /\ pk_args.margin = 5) => pk_ret.point = <<105, 120>>

C8_Witness ==
    /\ PickReturned
    /\ RuleIsLeftMiddle
    /\ ArgRect = ExampleRect
    /\ pk_args.margin = 5
    /\ pk_ret.point = <<105, 120>>

\* C9: on a rectangle with w <= 0 or h <= 0 the selection raises and returns
\* no point, for every rule string and every margin.
C9_EmptyRectRaises ==
    (PickCalled /\ (ArgRect.w <= 0 \/ ArgRect.h <= 0)) => PickRaised

C9_Witness ==
    /\ PickRaised
    /\ pk_ret.err = "bbox is empty"
    /\ ArgRect.w = 0 /\ ArgRect.h >= 1
    /\ RuleIsRandom
    /\ pk_args.margin = 0

\* C10: two click_bbox calls with rule random and the same rectangle, margin
\* and seed return the same point, whatever calls were made between them.
C10_SeededDeterministic ==
    (/\ pk_probe.set
     /\ pk_probe.args = pk_args
     /\ pk_args.seed.given
     /\ RuleIsRandom) => pk_probe.ret = pk_ret

C10_Witness ==
    /\ pk_probe.set
    /\ pk_probe.between
    /\ pk_probe.args = pk_args
    /\ pk_args.seed.given
    /\ RuleIsRandom
    /\ PickReturned
    /\ pk_ret.point # <<ArgRect.x, ArgRect.y>>
    /\ pk_probe.ret = pk_ret

\* the rule string as the selector compares it: trimmed, lower-cased, with
\* '-' for '_'; an absent rule is the empty string
CanonRule ==
    ReplaceChar(Lower(Strip(IF pk_args.rule.given THEN pk_args.rule.chars ELSE <<>>)), "_", "-")

AcceptedRuleNames ==
    {S_random, S_rand, S_left_middle, S_leftmid, S_left_mid, S_left_middle_side}

\* C11 as stated: every rule string other than random and left-middle is
\* rejected with an error and no point is returned.
C11_OnlyTwoRules ==
    (PickCalled /\ ~RuleIsRandom /\ ~RuleIsLeftMiddle) => PickRaised

\* C11 amended: every rule string that, trimmed, lower-cased and with '-'
\* for '_', is none of random, rand, left-middle, leftmid, left-mid and
\* left-middle-side is rejected with an error (the unknown-rule error on a
\* non-empty rectangle) and no point is returned.
C11_UnknownRuleRejected ==
    (PickCalled /\ CanonRule \notin AcceptedRuleNames) =>
        /\ PickRaised
        /\ NonEmptyRect => pk_ret.err = "Unknown rule"

C11_Witness ==
    /\ PickRaised
    /\ pk_ret.err = "Unknown rule"
    /\ pk_args.rule = RuleStr(<<"c", "e", "n", "t", "e", "r">>)
    /\ NonEmptyRect

(***************************************************************************)
(* Vocabulary of the actuation claims, stated on the call's arguments, its *)
(* outcome and the trace of its dealings with the environment.             *)
(***************************************************************************)
Tr == ck.trace

ClickReturned == ck.pc = "returned"
ClickRaised == ck.pc = "raised"
ClickOver == ClickReturned \/ ClickRaised

\* events written to the uinput device
MotionAt(k) == Tr[k].type = "EV_REL" /\ Tr[k].ok
ButtonDownAt(k) == Tr[k].type = "EV_KEY" /\ Tr[k].value = 1 /\ Tr[k].ok
ButtonUpAt(k) == Tr[k].type = "EV_KEY" /\ Tr[k].value = 0 /\ Tr[k].ok
QueryAt(k) == Tr[k].type = "cursorpos"
OpenedAt(k) == Tr[k].type = "open" /\ Tr[k].ok
ClosedAt(k) == Tr[k].type = "close"
CommandAt(k) == Tr[k].type = "ydotool"

\* the operations of the uinput controller other than closing the device
ControllerAt(k) == Tr[k].type \in {"open", "cursorpos", "EV_REL", "EV_KEY", "EV_SYN"}

NoFailure == \A k \in 1..Len(Tr) : Tr[k].ok

\* channels open after the first k trace entries
OpenAfter(k) ==
    Cardinality({j \in 1..k : OpenedAt(j)}) - Cardinality({j \in 1..k : ClosedAt(j)})

\* the arguments, as the claims classify them
MalformedRect == ck.args.bbox.kind = "tuple" /\ Len(ck.args.bbox.items) # 4
ArgRectOfCall ==
    IF ck.args.bbox.kind = "BBox" THEN ck.args.bbox.rect
    ELSE Rect(ck.args.bbox.items[1], ck.args.bbox.items[2],
              ck.args.bbox.items[3], ck.args.bbox.items[4])
EmptyRectOfCall == ~MalformedRect /\ (ArgRectOfCall.w <= 0 \/ ArgRectOfCall.h <= 0)
UnknownRuleOfCall ==
    ReplaceChar(Lower(Strip(IF ck.args.rule.given THEN ck.args.rule.chars ELSE <<>>)), "_", "-")
        \notin AcceptedRuleNames
UnknownButtonOfCall == ButtonNorm(ck.args.button) \notin {S_left, S_right, S_middle}
UnknownBackendOfCall ==
    BackendNorm(ck.args.backend) \notin {S_auto, <<>>, S_uinput, S_evdev, S_ydotool}
SelectionFails == MalformedRect \/ EmptyRectOfCall \/ UnknownRuleOfCall

\* C12: whenever the controller emits button-down, the ground-truth pointer
\* is within the tolerance (2) of the target on both axes, whatever the
\* channel does to the commanded motion.
C12_TargetAtButtonDown ==
    \A k \in 1..Len(Tr) :
        ButtonDownAt(k) =>
            /\ Abs(Tr[k].at[1] - ck.point[1]) <= 2
            /\ Abs(Tr[k].at[2] - ck.point[2]) <= 2

\* C13: the channel a move-and-click opens is closed on every exit path; at
\* most one channel is open at any time; in auto mode the uinput channel is
\* closed before the ydotool fallback starts.
C13_ChannelReleased ==
    /\ ck.open \in {0, 1}
    /\ LET doors == SelectSeq(Tr, LAMBDA e : (e.type = "open" /\ e.ok) \/ e.type = "close")
       IN \A d \in 1..Len(doors) : doors[d].type = IF d % 2 = 1 THEN "open" ELSE "close"
    /\ ClickOver => (ck.open = 0 /\ OpenAfter(Len(Tr)) = 0)
    /\ ck.pc \in {"ydotool", "ydo_move", "ydo_click"} => ck.open = 0
    /\ \A k \in 1..Len(Tr) : CommandAt(k) => OpenAfter(k) = 0

\* an auto call whose uinput attempt failed in a motion write and whose
\* fallback then clicked
C13_Witness ==
    /\ ClickReturned
    /\ \E k \in 1..Len(Tr) : OpenedAt(k)
    /\ \E k \in 1..Len(Tr) : Tr[k].type = "EV_REL" /\ ~Tr[k].ok
    /\ \E k \in 1..Len(Tr) : CommandAt(k) /\ Tr[k].ok /\ Tr[k].code = "0xC0"
    /\ ck.open = 0

\* a uinput move-and-click that ran to its end without a failure
UinputCompleted ==
    /\ ClickReturned
    /\ ~ck.args.dry_run
    /\ NoFailure
    /\ \A k \in 1..Len(Tr) : ~CommandAt(k)
    /\ Tr # <<>>

KeyEvents == SelectSeq(Tr, LAMBDA e : e.type = "EV_KEY")

\* C14: a move-and-click whose ground truth equals the target at every read
\* emits no relative-motion event and exactly one button-down followed by
\* one button-up.
C14_NoMotionStillClicks ==
    (UinputCompleted /\ \A k \in 1..Len(Tr) : QueryAt(k) => Tr[k].at = ck.point) =>
        /\ \A k \in 1..Len(Tr) : Tr[k].type # "EV_REL"
        /\ Len(KeyEvents) = 2
        /\ KeyEvents[1].value = 1 /\ KeyEvents[1].ok
        /\ KeyEvents[2].value = 0 /\ KeyEvents[2].ok

C14_Witness ==
    /\ UinputCompleted
    /\ ck.steps = 2
    /\ \A k \in 1..Len(Tr) : QueryAt(k) => Tr[k].at = ck.point
    /\ Cardinality({k \in 1..Len(Tr) : QueryAt(k)}) = 4
    /\ Len(KeyEvents) = 2

FatalAt(k) == Tr[k].type \in {"open", "cursorpos"} /\ ~Tr[k].ok

\* C15: within one uinput_move_and_click call the first failure to open the
\* channel or to query the position aborts the call with an error: the
\* controller emits no further motion or button event and repeats neither
\* the open nor the query.
C15_FatalAborts ==
    /\ \A k \in 1..Len(Tr) : FatalAt(k) => \A j \in (k + 1)..Len(Tr) : ~ControllerAt(j)
    /\ (ClickOver /\ ~ck.args.dry_run /\ (\E k \in 1..Len(Tr) : FatalAt(k))
          /\ BackendNorm(ck.args.backend) \in {S_uinput, S_evdev}) => ClickRaised

\* a position query that failed in the correction loop, after motion
C15_Witness ==
    /\ ClickRaised
    /\ BackendNorm(ck.args.backend) = S_uinput
    /\ \E k \in 1..Len(Tr) :
          /\ FatalAt(k) /\ Tr[k].type = "cursorpos"
          /\ \E j \in 1..(k - 1) : MotionAt(j)
          /\ Cardinality({j \in 1..(k - 1) : QueryAt(j)}) > ck.steps + 1
    /\ Tr[Len(Tr)].type = "close"

\* C16: click_bbox with dry_run selects the point only: it returns the
\* selected point, opens no channel, queries no position and emits no
\* event, for every backend value, an unrecognized one included.
C16_DryRunSelectsOnly ==
    ck.args.dry_run =>
        /\ Tr = <<>>
        /\ ck.open = 0
        /\ ck.pc \in {"idle", "returned", "raised"}
        /\ ClickRaised => SelectionFails
        /\ ClickReturned =>
              /\ ~SelectionFails
              /\ ck.point[1] >= ArgRectOfCall.x /\ ck.point[1] < ArgRectOfCall.x + ArgRectOfCall.w
              /\ ck.point[2] >= ArgRectOfCall.y /\ ck.point[2] < ArgRectOfCall.y + ArgRectOfCall.h

C16_Witness ==
    /\ ck.args.dry_run
    /\ ClickReturned
    /\ ck.point = <<105, 120>>
    /\ UnknownBackendOfCall
    /\ UnknownButtonOfCall

FailsValidation ==
    SelectionFails \/ (~ck.args.dry_run /\ (UnknownButtonOfCall \/ UnknownBackendOfCall))

\* C17: a click_bbox call that fails validation (malformed or empty
\* rectangle, unknown rule, unknown button, unknown backend) raises before
\* any side effect: no channel opened, no command run, no event emitted,
\* for every backend setting, auto included.
C17_ValidationBeforeEffects ==
    FailsValidation =>
        /\ Tr = <<>>
        /\ ck.open = 0
        /\ ~ClickReturned
        /\ ClickOver => ClickRaised

\* auto backend, unknown button: the uinput attempt and the fallback both
\* refuse the button
C17_Witness ==
    /\ ClickRaised
    /\ ~SelectionFails
    /\ UnknownButtonOfCall
    /\ BackendNorm(ck.args.backend) = S_auto
    /\ ck.err = "button must be one of: left, right, middle"
    /\ Tr = <<>>

(***************************************************************************)
(* The motion passes of a trace.  The first position query is the start    *)
(* read; each later query opens one pass of the animation loop (queries    *)
(* 2..steps+1) or of the correction loop (the queries after those).        *)
(***************************************************************************)
\* the trace positions of the position queries, in order
Queries == SelectSeq([k \in 1..Len(Tr) |-> k], LAMBDA k : QueryAt(k))

\* the clamp of the claims: at most 400 in magnitude
Cap400(d) == IF d > 400 THEN 400 ELSE IF d < -400 THEN -400 ELSE d

\* what a pass must write for the clamped deltas ex, ey: the non-zero
\* motions, x before y, then the synchronization marker
PassEvents(ex, ey) ==
    (IF ex # 0 THEN <<[type |-> "EV_REL", code |-> "REL_X", value |-> ex]>> ELSE <<>>)
    \o (IF ey # 0 THEN <<[type |-> "EV_REL", code |-> "REL_Y", value |-> ey]>> ELSE <<>>)
    \o <<[type |-> "EV_SYN", code |-> "SYN_REPORT", value |-> 0]>>

\* the entries after the query at q are written as `want` says, one by
\* one, until one of them fails
PassWrites(q, want) ==
    \A r \in 1..Len(want) :
        (\A m \in 0..(r - 1) : Tr[q + m].ok) =>
            /\ q + r <= Len(Tr)
            /\ Tr[q + r].type = want[r].type
            /\ Tr[q + r].code = want[r].code
            /\ Tr[q + r].value = want[r].value

\* C21: at every animation step i the controller re-reads the position and
\* emits, per axis, the delta from the position just read to step target i,
\* clamped to the cap; step target i is interpolated from the start read
\* once before the loop.
C21_DeltaFromFreshRead ==
    LET qs == Queries
    IN \A j \in 2..Len(qs) :
        j <= ck.steps + 1 =>
            LET q     == qs[j]
                start == Tr[qs[1]].at
                tx    == StepTarget(start[1], ck.point[1], j - 1, ck.steps)
                ty    == StepTarget(start[2], ck.point[2], j - 1, ck.steps)
            IN PassWrites(q, PassEvents(Cap400(tx - Tr[q].at[1]), Cap400(ty - Tr[q].at[2])))

\* the second animation step of a call on a channel that doubles motion:
\* the position read differs from what step 1 commanded
C21_Witness ==
    /\ channel = "double"
    /\ ck.steps = 3
    /\ Len(Queries) >= 3
    /\ Tr[Queries[3]].at # Tr[Queries[1]].at
    /\ Tr[Queries[3]].at[1] # StepTarget(Tr[Queries[1]].at[1], ck.point[1], 1, 3)
    /\ \E k \in (Queries[3] + 1)..Len(Tr) : MotionAt(k)

\* C22: every relative-motion event, in the animation and the correction
\* loop, carries a non-zero value of magnitude at most 400; an axis whose
\* clamped delta is 0 emits no event; a synchronization marker is emitted
\* once per step even when no motion event was.
C22_MotionEventsCapped ==
    /\ \A k \in 1..Len(Tr) :
          Tr[k].type = "EV_REL" => (Tr[k].value # 0 /\ Tr[k].value >= -400 /\ Tr[k].value <= 400)
    /\ LET qs == Queries
       IN \A j \in 2..Len(qs) :
          LET q    == qs[j]
              last == IF j < Len(qs) THEN qs[j + 1] - 1
                      ELSE SetMin({k \in (q + 1)..(Len(Tr) + 1) :
                                      k = Len(Tr) + 1 \/ Tr[k].type \notin {"EV_REL", "EV_SYN"}}) - 1
              near == /\ j > ck.steps + 1
                      /\ Abs(ck.point[1] - Tr[q].at[1]) <= 2
                      /\ Abs(ck.point[2] - Tr[q].at[2]) <= 2
          IN ((\A k \in q..last : Tr[k].ok) /\ ~near) =>
                /\ last > q
                /\ Tr[last].type = "EV_SYN"
                /\ \A k \in (q + 1)..(last - 1) : Tr[k].type = "EV_REL"

\* a step whose x delta exceeds the cap and whose y delta is 0: one capped
\* event on x, none on y, then the marker
C22_Witness ==
    \E k \in 2..(Len(Tr) - 1) :
        /\ MotionAt(k) /\ Tr[k].code = "REL_X" /\ Tr[k].value = 400
        /\ ck.point[1] - Tr[k].at[1] > 400
        /\ ck.point[2] = Tr[k].at[2]
        /\ QueryAt(k - 1) /\ Tr[k + 1].type = "EV_SYN" /\ Tr[k + 1].ok

\* C23: the correction loop makes at most 6 iterations; each re-reads the
\* position and stops without emitting when both deltas to the final target
\* are within 2, else emits one clamped correction; so it terminates with at
\* most 6 correction emissions whatever the position channel reports.
C23_CorrectionBounded ==
    /\ Len(Queries) <= 1 + ck.steps + 6
    /\ LET qs == Queries
       IN \A j \in 2..Len(qs) :
          j > ck.steps + 1 =>
              LET q  == qs[j]
                  dx == ck.point[1] - Tr[q].at[1]
                  dy == ck.point[2] - Tr[q].at[2]
              IN IF dx >= -2 /\ dx <= 2 /\ dy >= -2 /\ dy <= 2
                 THEN /\ j = Len(qs)
                      /\ Tr[q].ok => (ck.pc = "press" \/ (q + 1 <= Len(Tr) /\ Tr[q + 1].type = "EV_KEY"))
                 ELSE PassWrites(q, PassEvents(Cap400(dx), Cap400(dy)))
    /\ Len(Queries) = 1 + ck.steps + 6 => ck.pc # "corr"

\* six corrections were emitted and the call went on to the button
C23_Witness ==
    /\ Len(Queries) = 1 + ck.steps + 6
    /\ NoFailure
    /\ ClickReturned
    /\ \E k \in 1..Len(Tr) : ButtonDownAt(k)

\* C24: in a uinput move-and-click that completes without error all motion
\* events come first, then button-down, a synchronization marker, button-up,
\* a synchronization marker; no motion follows button-down, and both button
\* events carry the same code.
C24_ClickOrder ==
    UinputCompleted =>
        \E d \in 1..Len(Tr) :
            /\ ButtonDownAt(d)
            /\ \A k \in 1..Len(Tr) : Tr[k].type = "EV_REL" => k < d
            /\ \A k \in 1..Len(Tr) : Tr[k].type = "EV_KEY" => k \in {d, d + 2}
            /\ Len(Tr) = d + 4
            /\ Tr[d + 1].type = "EV_SYN"
            /\ ButtonUpAt(d + 2) /\ Tr[d + 2].code = Tr[d].code
            /\ Tr[d + 3].type = "EV_SYN"
            /\ Tr[d + 4].type = "close"

C24_Witness ==
    /\ UinputCompleted
    /\ \E k \in 1..Len(Tr) : MotionAt(k)
    /\ \E k \in 1..Len(Tr) : ButtonUpAt(k) /\ Tr[k].code = "BTN_RIGHT"

\* whether v lies between a and b, ends included
Between(a, v, b) == (a <= v /\ v <= b) \/ (b <= v /\ v <= a)

\* the step count the claims give a call: a value below 1 counts as 1
ClaimedSteps == IF ck.args.move_steps < 1 THEN 1 ELSE ck.args.move_steps

\* C25: the scheduled step targets progress monotonically from start to
\* target: on each axis the target of step i lies between the start and the
\* final target, never moves back toward the start as i grows, and the
\* target of the last step is the final target exactly; a steps value below
\* 1 is treated as 1, a single step aimed at the final target.
C25_StepTargetsMonotonic ==
    LET qs == Queries
    IN (qs # <<>> /\ Tr[qs[1]].ok) =>
        /\ ck.steps = ClaimedSteps
        /\ \A axis \in {1, 2} :
              LET start == Tr[qs[1]].at[axis]
                  final == ck.point[axis]
                  ts    == [i \in 0..ck.steps |->
                               IF i = 0 THEN start ELSE StepTarget(start, final, i, ck.steps)]
              IN /\ \A i \in 1..ck.steps :
                       /\ Between(start, ts[i], final)
                       /\ Between(ts[i - 1], ts[i], final)
                 /\ ts[ck.steps] = final
        /\ (ck.args.move_steps < 1 /\ Len(qs) >= 2) =>
              PassWrites(qs[2], PassEvents(Cap400(ck.point[1] - Tr[qs[2]].at[1]),
                                           Cap400(ck.point[2] - Tr[qs[2]].at[2])))

\* three steps from (0, 0) to (105, 120) on a faithful channel: the pointer
\* is read at (27, 31), (78, 89) and (105, 120)
C25_Witness ==
    /\ channel = "faithful"
    /\ ck.args.move_steps = 3
    /\ Len(Queries) >= 5
    /\ Tr[Queries[1]].at = <<0, 0>>
    /\ Tr[Queries[3]].at = <<27, 31>>
    /\ Tr[Queries[4]].at = <<78, 89>>
    /\ Tr[Queries[5]].at = <<105, 120>>

\* C27: on a faithful channel (the pointer moves by exactly each emitted
\* delta and by nothing else), for every start, target and steps >= 1 the
\* pointer is within 2 of the target on both axes when button-down is
\* emitted.
C27_FaithfulChannelArrives ==
    (channel = "faithful" /\ ck.args.move_steps >= 1) =>
        \A k \in 1..Len(Tr) :
            ButtonDownAt(k) =>
                /\ ck.point[1] - Tr[k].at[1] \in -2..2
                /\ ck.point[2] - Tr[k].at[2] \in -2..2

\* button presses of the call: button-down events written to the uinput
\* device and ydotool click commands that ran
Presses ==
    {k \in 1..Len(Tr) : ButtonDownAt(k) \/ (CommandAt(k) /\ Tr[k].code # "mousemove" /\ Tr[k].ok)}

\* C28: one click_bbox call with backend auto produces at most one button
\* press, wherever the uinput path fails: the button-down events of the
\* uinput attempt and of the ydotool fallback together number at most 1.
C28_AutoClicksOnce ==
    BackendNorm(ck.args.backend) \in {S_auto, <<>>} => Cardinality(Presses) <= 1

\* the range the claims give one axis of the inset rectangle: position p,
\* extent e, margin m
InsetRange(p, e, m) ==
    IF e >= 2 * m + 1 THEN <<p + m, p + e - 1 - m>> ELSE <<p + (e \div 2), p + (e \div 2)>>

\* C26: the inset rectangle never inverts: inner_left <= inner_right and
\* inner_top <= inner_bottom for every non-empty rectangle and margin (a
\* negative margin counting as 0).  When w >= 2*margin + 1 the horizontal
\* range is exactly [x + margin, x + w - 1 - margin], so a random point stays
\* margin pixels from both vertical edges; otherwise both bounds are
\* x + floor(w / 2); the same holds vertically with h.
C26_InsetNeverInverts ==
    (PickCalled /\ NonEmptyRect) =>
        LET inner == Inner(normalized(ArgRect), pk_args.margin)
            xs    == InsetRange(ArgRect.x, ArgRect.w, MarginInEffect)
            ys    == InsetRange(ArgRect.y, ArgRect.h, MarginInEffect)
        IN /\ inner.left <= inner.right
           /\ inner.top <= inner.bottom
           /\ <<inner.left, inner.right>> = xs
           /\ <<inner.top, inner.bottom>> = ys
           /\ (PickReturned /\ CanonRule \in {S_random, S_rand}) =>
                 /\ xs[1] <= pk_ret.raw[1] /\ pk_ret.raw[1] <= xs[2]
                 /\ ys[1] <= pk_ret.raw[2] /\ pk_ret.raw[2] <= ys[2]
                 /\ ArgRect.w >= 2 * MarginInEffect + 1 =>
                       /\ pk_ret.raw[1] - ArgRect.x >= MarginInEffect
                       /\ ArgRect.x + ArgRect.w - 1 - pk_ret.raw[1] >= MarginInEffect

\* a random point in a 3 x 3 rectangle with margin 2: the inset would
\* invert and both ranges are the midpoint
C26_Witness ==
    /\ PickReturned
    /\ RuleIsRandom
    /\ ArgRect.w = 3 /\ ArgRect.h = 3
    /\ pk_args.margin = 2
    /\ pk_ret.raw = <<ArgRect.x + 1, ArgRect.y + 1>>

(***************************************************************************)
(* Vocabulary of the order-of-delivery claim.                              *)
(***************************************************************************)
PermRes == ocr_perm.results

PermReturned == ocr_perm.status = "ok"

\* the words of a chunk of the second call, named by their positions in the
\* first delivery
PermMembers(c) == {ocr_perm.perm[PermRes[c].text[k]] : k \in 1..Len(PermRes[c].text)}

\* what a call says of its chunks, word order inside the text left out
Summary == {[members |-> Members(c), bbox |-> Res[c].bbox, group_id |-> Res[c].group_id] :
               c \in 1..Len(Res)}
PermSummary ==
    {[members |-> PermMembers(c), bbox |-> PermRes[c].bbox, group_id |-> PermRes[c].group_id] :
        c \in 1..Len(PermRes)}

\* C29 as stated: the clustering result does not depend on the order of
\* delivery: for every permutation of the same word boxes the partition into
\* chunks and each chunk's bbox and group_id are identical.
C29_OrderIndependent ==
    PermReturned => (Len(PermRes) = Len(Res) /\ PermSummary = Summary)

\* C29 amended: for group_y_thresh >= 0 the partition into chunks and each
\* chunk's bbox and group_id are identical for every permutation of the
\* same word boxes; for any group_y_thresh the partition and the bboxes are.
C29_OrderIndependentNonNegative ==
    PermReturned =>
        /\ Len(PermRes) = Len(Res)
        /\ {[members |-> s.members, bbox |-> s.bbox] : s \in PermSummary}
             = {[members |-> s.members, bbox |-> s.bbox] : s \in Summary}
        /\ ocr_args.group_y_thresh >= 0 => PermSummary = Summary

\* three words, two of them one chunk, delivered in reverse: the chunk's
\* text order differs, the summary does not
C29_Witness ==
    /\ PermReturned
    /\ ocr_args.group_y_thresh >= 0
    /\ Len(data) = 3
    /\ ocr_perm.perm = <<3, 2, 1>>
    /\ Len(Res) = 2
    /\ \E c \in 1..2, d \in 1..2 :
          /\ Len(Res[c].text) = 2
          /\ PermMembers(d) = Members(c)
          /\ <<ocr_perm.perm[PermRes[d].text[1]], ocr_perm.perm[PermRes[d].text[2]]>> # Res[c].text
    /\ Res[1].group_id # Res[2].group_id

\* C30: bbox_for_contains never fails and returns either None or the bbox
\* of an element of the given result list, for every result list (lists of
\* fewer than 4 items included), every needle and both strict settings.
C30_FindNeverFails ==
    bf.ret.status # "idle" =>
        \/ bf.ret.status = "none"
        \/ /\ bf.ret.status = "bbox"
           /\ \E k \in 1..Len(bf.results) : bf.results[k].bbox = bf.ret.bbox

=============================================================================
